---- MODULE Spec2Model ----
(***************************************************************************)
(* Model of the buffering stream decoder of the BTHI infrared decoder      *)
(* library (src/BTHI_IR_Decoder.cpp, src/BTHI_IR_Decoder.h).               *)
(*                                                                         *)
(* IR_BufferingStreamDecoder is driven from two contexts.  The Timer 1     *)
(* interrupt handlers call edgeEvent and endOfFrameEvent; an AVR interrupt *)
(* handler runs to completion with interrupts disabled, so each call is    *)
(* one step.  The foreground calls readyForNextFrame and setSegmentBuffer, *)
(* whose field writes all lie between cli() and sei(), so no handler runs  *)
(* between them and each call is one step as well.                         *)
(*                                                                         *)
(* Besides the fields of the class and the caller's arrays, the model      *)
(* keeps history variables (lastOp, lastWrite, given, run, nEdges, hist,   *)
(* frameEdges).  They record what was called and are never read by the     *)
(* modelled code; the properties are stated over them.                     *)
(***************************************************************************)
EXTENDS Integers, Sequences, FiniteSets

\* ---------------------------------------------------------------- bounds

\* Largest num_segments a caller hands to setSegmentBuffer (the size of the
\* larger of the caller's two arrays).
MaxCap == 2

\* Number of distinct edge durations the capture hardware delivers.
NumDur == 2

\* Largest value of the model's Timer 1 counter.  The hardware counter is 16
\* bits wide and wraps from 0xFFFF to 0; the model's wraps from TimerTop to 0.
TimerTop == 3

\* Dropped segments up to which interrupts keep arriving while the foreground
\* is followed statement by statement.
MaxDrops == 2

\* ------------------------------------------------------------- constants

\* (uint8_t)0xFF, the value at which _segment_overflows stops counting.
OVERFLOW_MAX == 255

\* Number of values of a uint8_t field.
UINT8_RANGE == 256

\* ------------------------------------------------------------ the memory

\* The ir_segment_t arrays the foreground owns and may hand to the decoder.
Buffers == {"bufA", "bufB"}

\* Number of elements of each array: one of MaxCap segments and one of a
\* single segment.
BufSize(b) == IF b = "bufA" THEN MaxCap ELSE 1

\* Values an ir_segment_t* can hold: NULL, one of the caller's arrays, or an
\* address that is none of them.
Pointers == {"NULL", "wild"} \cup Buffers

\* Durations passed to edgeEvent (uint16_t tick counts; 0 is kept for a slot
\* that was never written).
Durations == 1..NumDur

\* Cap of the history counter nEdges: large enough to tell every overflow
\* count up to and beyond OVERFLOW_MAX apart.
EdgeCap == OVERFLOW_MAX + MaxCap + 3

VARIABLES
    mem,                \* contents of the caller's arrays: mem[b][i].duration
    segments,           \* _segments
    max_segments,       \* _max_segments
    count,              \* _count
    segment_overflows,  \* _segment_overflows
    frame_complete,     \* _frame_complete
    first_edge,         \* _first_edge
    lastOp,             \* history: the last call, <<name, arguments>>
    lastWrite,          \* history: the slot the last call wrote, or <<>>
    given,              \* history: <<buffer, capacity>> last given to setSegmentBuffer
    run,                \* history: "edges" | "eof" | "other" since the last reset
    nEdges,             \* history: edgeEvent calls since the last reset (while run = "edges")
    hist,               \* history: the durations of the second, third, ... of them,
                        \*          as many as the capacity (while run = "edges")
    frameEdges,         \* history: edgeEvent calls since the last endOfFrameEvent (capped at 2)
    resetBy             \* history: "ready" while run # "other" and the last reset was a
                        \*          readyForNextFrame call made with the frame complete and
                        \*          the overflow count saturated; "-" otherwise

\* Timer 1 and IR_HwInterface.  A register is the set of its bits that are 1.
VARIABLES
    hw_decoder,         \* IR_HwInterface::_decoder: "NULL" or "dec"
    TCNT1,              \* the free-running counter
    ICR1,               \* the input capture register
    TCCR1B,             \* control register B: bits ICES1, ICNC1, CS11
    TIMSK1,             \* interrupt mask: bits ICIE1, TOIE1
    TIFR1,              \* interrupt flags: bits ICF1, TOV1
    sreg_I,             \* the global interrupt enable bit of SREG
    pinLevel,           \* level of the input capture pin
    delivered,          \* history: the calls the last handler made to the delegate
    setupArgs,          \* history: <<polarity, level read>> of the last setup, or <<>>
    lastCapt,           \* history: the last captureInterrupt since setup, or <<>>:
                        \*          <<calls made, ICR1, ICES1 set, _decoder>> at its entry
    wrapped,            \* history: the counter wrapped since the last captureInterrupt
    eofCount,           \* history: endOfFrameEvent calls since the last captureInterrupt
    lastOvf             \* history: the last overflowInterrupt since the last
                        \*          captureInterrupt that called endOfFrameEvent, or <<>>:
                        \*          <<wrapped, ICF1 pending, a capture ran since setup>>

\* The foreground program, followed statement by statement.
VARIABLES
    pc,                 \* <<"idle">>, or <<function, next statement, arguments>>
    crit,               \* history: <<I bit at the entry of the last readyForNextFrame
                        \*          or setSegmentBuffer, I bit at its return>>
    irqDuring,          \* history: "-" if no handler ran since the current call began,
                        \*          "partial" if one ran between its first and last
                        \*          field write, "outside" otherwise
    retRec              \* history: the last return of getSegmentCount, or <<>>:
                        \*          <<value, _frame_complete, _count, irqDuring>>

decoder == <<segments, max_segments, count, segment_overflows, frame_complete, first_edge>>

history == <<lastOp, lastWrite, given, run, nEdges, hist, frameEdges, resetBy>>

timer == <<hw_decoder, TCNT1, ICR1, TCCR1B, TIMSK1, TIFR1, pinLevel>>

timerHistory == <<delivered, setupArgs, lastCapt, wrapped, eofCount, lastOvf>>

foreground == <<pc, crit, irqDuring, retRec>>

vars == <<mem, decoder, history, timer, timerHistory, sreg_I, foreground>>

Min(a, b) == IF a < b THEN a ELSE b

Max(a, b) == IF a > b THEN a ELSE b

\* ------------------------------------------------------------ operations

\* IR_BufferingStreamDecoder::IR_BufferingStreamDecoder.  The constructor
\* assigns NULL to a local that shadows the member, so _segments keeps
\* whatever the object's storage held.
Constructor ==
    /\ segments \in Pointers
    /\ max_segments = 0
    /\ count = 0
    /\ segment_overflows = 0
    /\ frame_complete = 0
    /\ first_edge = 1

\* Variant of StoreSegment: the index is incremented before the store
\* (_segments[++_count]).
StoreSegment_preIncrement(duration) ==
    /\ mem' = IF segments \in Buffers /\ count + 1 < BufSize(segments)
              THEN [mem EXCEPT ![segments][count + 1] = duration]
              ELSE mem
    /\ lastWrite' = <<segments, count + 1>>
    /\ count' = (count + 1) % UINT8_RANGE
    /\ UNCHANGED <<segment_overflows, first_edge>>

\* _segments[_count++].duration = duration
StoreSegment(duration) ==
    /\ mem' = IF segments \in Buffers /\ count < BufSize(segments)
              THEN [mem EXCEPT ![segments][count] = duration]
              ELSE mem
    /\ lastWrite' = <<segments, count>>
    /\ count' = (count + 1) % UINT8_RANGE
    /\ UNCHANGED <<segment_overflows, first_edge>>

\* Variant of DropSegment: the counter is incremented without the test
\* against 0xFF, so the uint8_t wraps.
DropSegment_wrap ==
    /\ segment_overflows' = (segment_overflows + 1) % UINT8_RANGE
    /\ lastWrite' = <<>>
    /\ UNCHANGED <<mem, count, first_edge>>

\* Variant of DropSegment: the segment is dropped but not counted.
DropSegment_noCount ==
    /\ lastWrite' = <<>>
    /\ UNCHANGED <<mem, count, segment_overflows, first_edge>>

\* The branch taken when the buffer is full: count the dropped segment.
DropSegment ==
    /\ segment_overflows' = IF segment_overflows < OVERFLOW_MAX
                            THEN (segment_overflows + 1) % UINT8_RANGE
                            ELSE segment_overflows
    /\ lastWrite' = <<>>
    /\ UNCHANGED <<mem, count, first_edge>>

\* Variant of edgeEvent: the capacity test is _count > _max_segments.
edgeEvent_offByOne(duration) ==
    /\ UNCHANGED <<segments, max_segments, frame_complete>>
    /\ IF frame_complete # 0
       THEN /\ lastWrite' = <<>>
            /\ UNCHANGED <<mem, count, segment_overflows, first_edge>>
       ELSE IF first_edge = 1
       THEN /\ first_edge' = 0
            /\ lastWrite' = <<>>
            /\ UNCHANGED <<mem, count, segment_overflows>>
       ELSE IF count > max_segments
       THEN DropSegment
       ELSE StoreSegment(duration)

\* Variant of edgeEvent: the test of _frame_complete is missing.
edgeEvent_noFreeze(duration) ==
    /\ UNCHANGED <<segments, max_segments, frame_complete>>
    /\ IF first_edge = 1
       THEN /\ first_edge' = 0
            /\ lastWrite' = <<>>
            /\ UNCHANGED <<mem, count, segment_overflows>>
       ELSE IF count >= max_segments
       THEN DropSegment
       ELSE StoreSegment(duration)

\* Variant of edgeEvent: a full buffer marks the frame complete.
edgeEvent_completeOnFull(duration) ==
    /\ UNCHANGED <<segments, max_segments>>
    /\ IF frame_complete # 0
       THEN /\ lastWrite' = <<>>
            /\ UNCHANGED <<mem, count, segment_overflows, first_edge, frame_complete>>
       ELSE IF first_edge = 1
       THEN /\ first_edge' = 0
            /\ lastWrite' = <<>>
            /\ UNCHANGED <<mem, count, segment_overflows, frame_complete>>
       ELSE IF count >= max_segments
       THEN DropSegment /\ frame_complete' = 1
       ELSE StoreSegment(duration) /\ frame_complete' = frame_complete

\* Variant of edgeEvent: the capacity test is skipped while _count is 0.
edgeEvent_firstSlotUnchecked(duration) ==
    /\ UNCHANGED <<segments, max_segments, frame_complete>>
    /\ IF frame_complete # 0
       THEN /\ lastWrite' = <<>>
            /\ UNCHANGED <<mem, count, segment_overflows, first_edge>>
       ELSE IF first_edge = 1
       THEN /\ first_edge' = 0
            /\ lastWrite' = <<>>
            /\ UNCHANGED <<mem, count, segment_overflows>>
       ELSE IF count > 0 /\ count >= max_segments
       THEN DropSegment
       ELSE StoreSegment(duration)

\* IR_BufferingStreamDecoder::edgeEvent
edgeEvent(duration) ==
    /\ UNCHANGED <<segments, max_segments, frame_complete>>
    /\ IF frame_complete # 0
       THEN /\ lastWrite' = <<>>
            /\ UNCHANGED <<mem, count, segment_overflows, first_edge>>
       ELSE IF first_edge = 1
       THEN /\ first_edge' = 0
            /\ lastWrite' = <<>>
            /\ UNCHANGED <<mem, count, segment_overflows>>
       ELSE IF count >= max_segments
       THEN DropSegment
       ELSE StoreSegment(duration)

\* Variant of endOfFrameEvent: the test of _count is missing.
endOfFrameEvent_always ==
    /\ frame_complete' = 1
    /\ lastWrite' = <<>>
    /\ UNCHANGED <<mem, segments, max_segments, count, segment_overflows, first_edge>>

\* Variant of endOfFrameEvent: the test is _count > 1.
endOfFrameEvent_moreThanOne ==
    /\ frame_complete' = IF count > 1 THEN 1 ELSE frame_complete
    /\ lastWrite' = <<>>
    /\ UNCHANGED <<mem, segments, max_segments, count, segment_overflows, first_edge>>

\* IR_BufferingStreamDecoder::endOfFrameEvent
endOfFrameEvent ==
    /\ frame_complete' = IF count > 0 THEN 1 ELSE frame_complete
    /\ lastWrite' = <<>>
    /\ UNCHANGED <<mem, segments, max_segments, count, segment_overflows, first_edge>>

\* Variant of setSegmentBuffer: _count is not reset.
setSegmentBuffer_keepCount(buf, num_segments) ==
    /\ segments' = buf
    /\ max_segments' = num_segments
    /\ frame_complete' = 0
    /\ segment_overflows' = 0
    /\ first_edge' = 1
    /\ lastWrite' = <<>>
    /\ UNCHANGED <<mem, count>>

\* IR_BufferingStreamDecoder::setSegmentBuffer
setSegmentBuffer(buf, num_segments) ==
    /\ segments' = buf
    /\ max_segments' = num_segments
    /\ count' = 0
    /\ frame_complete' = 0
    /\ segment_overflows' = 0
    /\ first_edge' = 1
    /\ lastWrite' = <<>>
    /\ UNCHANGED mem

\* Variant of readyForNextFrame: _first_edge is not set again.
readyForNextFrame_noRearm ==
    /\ count' = 0
    /\ frame_complete' = 0
    /\ segment_overflows' = 0
    /\ lastWrite' = <<>>
    /\ UNCHANGED <<mem, segments, max_segments, first_edge>>

\* IR_BufferingStreamDecoder::readyForNextFrame
readyForNextFrame ==
    /\ count' = 0
    /\ frame_complete' = 0
    /\ segment_overflows' = 0
    /\ first_edge' = 1
    /\ lastWrite' = <<>>
    /\ UNCHANGED <<mem, segments, max_segments>>

\* IR_BufferingStreamDecoder::isDone
isDone == frame_complete

\* IR_BufferingStreamDecoder::getSegmentCount
getSegmentCount == IF frame_complete = 0 THEN 0 ELSE count

\* IR_BufferingStreamDecoder::getSegmentOverflowCount
getSegmentOverflowCount == segment_overflows

\* ------------------------------------------------- the hardware interface

\* ir_polarity_t
Polarities == {"IR_POLARITY_LOW", "IR_POLARITY_HIGH", "IR_POLARITY_AUTO"}

\* IR_HwInterface::IR_HwInterface
HwConstructor == hw_decoder = "NULL"

\* Timer 1 after a reset of the microcontroller: registers cleared, the
\* counter stopped.
TimerReset ==
    /\ TCNT1 = 0
    /\ ICR1 = 0
    /\ TCCR1B = {}
    /\ TIMSK1 = {}
    /\ TIFR1 = {}

\* The flags after the hardware has entered the vector of `flag`: executing
\* the vector clears the flag.
VectorEntry(flag) == TIFR1 \ {flag}

\* setup: the edge-select bit as the polarity branch leaves it, given the
\* level digitalRead returns.
SetupEdgeSelect(polarity, level, tccr1b) ==
    IF polarity = "IR_POLARITY_AUTO"
    THEN IF level = 0 THEN tccr1b \cup {"ICES1"} ELSE tccr1b \ {"ICES1"}
    ELSE IF polarity = "IR_POLARITY_LOW"
    THEN tccr1b \cup {"ICES1"}
    ELSE tccr1b \ {"ICES1"}

\* setup: TCCR1B = (1 << ICNC1) | (1 << CS11), assigned after the polarity
\* branch.
SetupPrescaler(tccr1b) == {"ICNC1", "CS11"}

\* IR_HwInterface::setup, from cli() to sei()
setup(stream_decoder, polarity) ==
    /\ hw_decoder' = stream_decoder
    /\ TCNT1' = 0
    /\ TCCR1B' = SetupPrescaler(SetupEdgeSelect(polarity, pinLevel, TCCR1B))
    /\ TIMSK1' = {"ICIE1"}
    /\ sreg_I' = 1
    /\ delivered' = <<>>
    /\ UNCHANGED <<ICR1, TIFR1>>

\* Variant of Elapsed: the counter is read, after it was reset, instead of
\* the capture register.
Elapsed_readsCounter == TCNT1'

\* captureInterrupt: elapsed = ICR1, read after TCNT1 = 0
Elapsed == ICR1

\* Variant of NextEdgeSelect: the bit is left as it is.
NextEdgeSelect_keep(tccr1b) == tccr1b

\* captureInterrupt: the edge-select bit after the level test
NextEdgeSelect(tccr1b) ==
    IF "ICES1" \in tccr1b THEN tccr1b \ {"ICES1"} ELSE tccr1b \cup {"ICES1"}

\* Variant of ArmOverflow: the overflow flag is not cleared first.
ArmOverflow_noFlagClear ==
    /\ TIFR1' = VectorEntry("ICF1")
    /\ TIMSK1' = {"ICIE1", "TOIE1"}

\* captureInterrupt: TIFR1 = (1 << TOV1); TIMSK1 = (1 << ICIE1) | (1 << TOIE1)
ArmOverflow ==
    /\ TIFR1' = VectorEntry("ICF1") \ {"TOV1"}
    /\ TIMSK1' = {"ICIE1", "TOIE1"}

\* IR_HwInterface::captureInterrupt
captureInterrupt ==
    /\ TCNT1' = 0
    /\ ArmOverflow
    /\ TCCR1B' = NextEdgeSelect(TCCR1B)
    /\ delivered' = IF hw_decoder # "NULL" THEN << <<"edgeEvent", Elapsed>> >> ELSE <<>>
    /\ UNCHANGED <<hw_decoder, ICR1, sreg_I>>

\* Variant of DisarmOverflow: the overflow interrupt stays enabled.
DisarmOverflow_none == TIMSK1' = TIMSK1

\* overflowInterrupt: TIMSK1 &= ~(1 << TOIE1)
DisarmOverflow == TIMSK1' = TIMSK1 \ {"TOIE1"}

\* IR_HwInterface::overflowInterrupt
overflowInterrupt ==
    /\ DisarmOverflow
    /\ TIFR1' = VectorEntry("TOV1")
    /\ delivered' = IF hw_decoder # "NULL" THEN << <<"endOfFrameEvent">> >> ELSE <<>>
    /\ UNCHANGED <<hw_decoder, TCNT1, ICR1, TCCR1B, sreg_I>>

\* ISR(TIMER1_CAPT_vect) can be taken: interrupts enabled, the capture
\* interrupt enabled and its flag set.
CaptPending == sreg_I = 1 /\ "ICIE1" \in TIMSK1 /\ "ICF1" \in TIFR1

\* ISR(TIMER1_OVF_vect) can be taken.  The capture vector precedes the
\* overflow vector in the vector table and is served first.
OvfPending == sreg_I = 1 /\ "TOIE1" \in TIMSK1 /\ "TOV1" \in TIFR1 /\ ~CaptPending

\* --------------------------------------------- statements of the foreground

\* Variant of EnterCritical: interrupts are left as they are.
EnterCritical_none == sreg_I' = sreg_I

\* cli()
EnterCritical == sreg_I' = 0

\* Variant of LeaveCritical: the I bit found at entry is restored.
LeaveCritical_restore == sreg_I' = crit[1]

\* sei()
LeaveCritical == sreg_I' = 1

\* The statements of readyForNextFrame, in order.
ReadyBody ==
    << <<"cli">>, <<"_count", 0>>, <<"_frame_complete", 0>>,
       <<"_segment_overflows", 0>>, <<"_first_edge", 1>>, <<"sei">> >>

\* The statements of setSegmentBuffer, in order.
SetBody(buf, num_segments) ==
    << <<"cli">>, <<"_segments", buf>>, <<"_max_segments", num_segments>>,
       <<"_count", 0>>, <<"_frame_complete", 0>>,
       <<"_segment_overflows", 0>>, <<"_first_edge", 1>>, <<"sei">> >>

\* The statements of the function at position p.
Body(p) == IF p[1] = "readyForNextFrame" THEN ReadyBody ELSE SetBody(p[3], p[4])

\* One assignment to a field of the decoder.
Assign(field, value) ==
    /\ segments' = IF field = "_segments" THEN value ELSE segments
    /\ max_segments' = IF field = "_max_segments" THEN value ELSE max_segments
    /\ count' = IF field = "_count" THEN value ELSE count
    /\ frame_complete' = IF field = "_frame_complete" THEN value ELSE frame_complete
    /\ segment_overflows' = IF field = "_segment_overflows" THEN value
                            ELSE segment_overflows
    /\ first_edge' = IF field = "_first_edge" THEN value ELSE first_edge

\* One statement of readyForNextFrame or setSegmentBuffer.
Execute(stmt) ==
    IF stmt[1] = "cli" THEN EnterCritical /\ UNCHANGED decoder
    ELSE IF stmt[1] = "sei" THEN LeaveCritical /\ UNCHANGED decoder
    ELSE Assign(stmt[1], stmt[2]) /\ UNCHANGED sreg_I

\* Variant of TestComplete: the flag is not tested.
TestComplete_skip ==
    /\ pc' = <<"getSegmentCount", 2>>
    /\ UNCHANGED retRec

\* getSegmentCount: if (0 == _frame_complete) return 0
TestComplete ==
    IF 0 = frame_complete
    THEN /\ pc' = <<"idle">>
         /\ retRec' = <<0, frame_complete, count, "-">>
    ELSE /\ pc' = <<"getSegmentCount", 2>>
         /\ UNCHANGED retRec

\* getSegmentCount: return _count
ReturnCount ==
    /\ pc' = <<"idle">>
    /\ retRec' = <<count, frame_complete, count, irqDuring>>

\* -------------------------------------------------------------- behaviour

Init ==
    /\ Constructor
    /\ mem = [b \in Buffers |-> [i \in 0..(BufSize(b) - 1) |-> 0]]
    /\ lastOp = <<"new">>
    /\ lastWrite = <<>>
    /\ given = <<"none", 0>>
    /\ run = "edges"
    /\ nEdges = 0
    /\ hist = <<>>
    /\ resetBy = "-"
    /\ frameEdges = 0
    /\ HwConstructor
    /\ TimerReset
    /\ sreg_I = 1
    /\ pinLevel = 1
    /\ delivered = <<>>
    /\ setupArgs = <<>>
    /\ lastCapt = <<>>
    /\ wrapped = FALSE
    /\ eofCount = 0
    /\ lastOvf = <<>>
    /\ pc = <<"idle">>
    /\ crit = <<>>
    /\ irqDuring = "-"
    /\ retRec = <<>>

\* The capture interrupt delivers an edge.
OnEdge(duration) ==
    /\ edgeEvent(duration)
    /\ lastOp' = <<"edge">>
    /\ frameEdges' = Min(frameEdges + 1, 2)
    /\ given' = given
    /\ IF run = "edges"
       THEN /\ run' = run
            /\ nEdges' = Min(nEdges + 1, EdgeCap)
            /\ hist' = IF nEdges >= 1 /\ Len(hist) < max_segments
                       THEN Append(hist, duration)
                       ELSE hist
            /\ resetBy' = resetBy
       ELSE /\ run' = "other"
            /\ nEdges' = 0
            /\ hist' = <<>>
            /\ resetBy' = "-"

\* The overflow interrupt signals the end of the frame.
OnEndOfFrame ==
    /\ endOfFrameEvent
    /\ lastOp' = <<"eof">>
    /\ frameEdges' = 0
    /\ given' = given
    /\ IF run = "edges"
       THEN /\ run' = "eof"
            /\ UNCHANGED <<nEdges, hist, resetBy>>
       ELSE /\ run' = "other"
            /\ nEdges' = 0
            /\ hist' = <<>>
            /\ resetBy' = "-"

\* The foreground releases the frame.
OnReady ==
    /\ readyForNextFrame
    /\ lastOp' = <<"ready">>
    /\ resetBy' = IF segment_overflows = OVERFLOW_MAX /\ isDone # 0 THEN "ready" ELSE "-"
    /\ run' = "edges"
    /\ nEdges' = 0
    /\ hist' = <<>>
    /\ UNCHANGED <<given, frameEdges>>

\* The foreground supplies one of its arrays with a capacity up to its size,
\* or NULL with capacity zero.
OnSet(buf, num_segments) ==
    /\ setSegmentBuffer(buf, num_segments)
    /\ lastOp' = <<"set", buf, num_segments>>
    /\ given' = <<buf, num_segments>>
    /\ resetBy' = "-"
    /\ run' = "edges"
    /\ nEdges' = 0
    /\ hist' = <<>>
    /\ UNCHANGED frameEdges

\* The decoder alone: the timer is left as it is.
Next ==
    \/ \E d \in Durations : OnEdge(d) /\ UNCHANGED <<timer, timerHistory, sreg_I, foreground>>
    \/ OnEndOfFrame /\ UNCHANGED <<timer, timerHistory, sreg_I, foreground>>
    \/ OnReady /\ UNCHANGED <<timer, timerHistory, sreg_I, foreground>>
    \/ \E b \in Buffers : \E n \in 0..BufSize(b) :
           OnSet(b, n) /\ UNCHANGED <<timer, timerHistory, sreg_I, foreground>>
    \/ OnSet("NULL", 0) /\ UNCHANGED <<timer, timerHistory, sreg_I, foreground>>

Spec == Init /\ [][Next]_vars

\* ------------------------------------- behaviour of the hardware interface

\* The foreground calls IR_InputCaptureInterface.setup.
HwSetup(stream_decoder, polarity) ==
    /\ setup(stream_decoder, polarity)
    /\ setupArgs' = <<polarity, pinLevel>>
    /\ lastCapt' = <<>>
    /\ wrapped' = FALSE
    /\ UNCHANGED <<pinLevel, eofCount, lastOvf>>

\* The counter counts one tick once a clock is selected, and sets TOV1 when
\* it wraps.
HwTick ==
    /\ "CS11" \in TCCR1B
    /\ TCNT1' = (TCNT1 + 1) % (TimerTop + 1)
    /\ TIFR1' = IF TCNT1 = TimerTop THEN TIFR1 \cup {"TOV1"} ELSE TIFR1
    /\ wrapped' = (wrapped \/ TCNT1 = TimerTop)
    /\ UNCHANGED <<hw_decoder, ICR1, TCCR1B, TIMSK1, sreg_I, pinLevel>>
    /\ UNCHANGED <<delivered, setupArgs, lastCapt, eofCount, lastOvf>>

\* The receiver output changes level; an edge in the selected direction
\* latches the counter into ICR1 and sets ICF1.
HwPinEdge ==
    /\ pinLevel' = 1 - pinLevel
    /\ IF (pinLevel' = 1) = ("ICES1" \in TCCR1B)
       THEN /\ ICR1' = TCNT1
            /\ TIFR1' = TIFR1 \cup {"ICF1"}
       ELSE UNCHANGED <<ICR1, TIFR1>>
    /\ UNCHANGED <<hw_decoder, TCNT1, TCCR1B, TIMSK1, sreg_I>>
    /\ UNCHANGED timerHistory

\* ISR(TIMER1_CAPT_vect)
HwCaptureIsr ==
    /\ CaptPending
    /\ captureInterrupt
    /\ lastCapt' = <<delivered', ICR1, "ICES1" \in TCCR1B, hw_decoder>>
    /\ wrapped' = FALSE
    /\ eofCount' = 0
    /\ lastOvf' = <<>>
    /\ UNCHANGED <<pinLevel, setupArgs>>

\* ISR(TIMER1_OVF_vect)
HwOverflowIsr ==
    /\ OvfPending
    /\ overflowInterrupt
    /\ IF delivered' # <<>>
       THEN /\ eofCount' = Min(eofCount + 1, 2)
            /\ lastOvf' = <<wrapped, "ICF1" \in TIFR1, lastCapt # <<>>>>
       ELSE UNCHANGED <<eofCount, lastOvf>>
    /\ UNCHANGED <<pinLevel, setupArgs, lastCapt, wrapped>>

\* The foreground enters a critical section (cli).
HwMask ==
    /\ sreg_I = 1
    /\ sreg_I' = 0
    /\ UNCHANGED <<timer, timerHistory>>

\* The foreground leaves a critical section (sei).
HwUnmask ==
    /\ sreg_I = 0
    /\ sreg_I' = 1
    /\ UNCHANGED <<timer, timerHistory>>

HwNext ==
    \/ \E dec \in {"NULL", "dec"}, pol \in Polarities :
           HwSetup(dec, pol) /\ UNCHANGED <<mem, decoder, history, foreground>>
    \/ HwTick /\ UNCHANGED <<mem, decoder, history, foreground>>
    \/ HwPinEdge /\ UNCHANGED <<mem, decoder, history, foreground>>
    \/ HwCaptureIsr /\ UNCHANGED <<mem, decoder, history, foreground>>
    \/ HwOverflowIsr /\ UNCHANGED <<mem, decoder, history, foreground>>
    \/ HwMask /\ UNCHANGED <<mem, decoder, history, foreground>>
    \/ HwUnmask /\ UNCHANGED <<mem, decoder, history, foreground>>

SpecHw == Init /\ [][HwNext]_vars

\* ------------------------------- the foreground interleaved with interrupts

\* The position is between the first and the last field write of
\* readyForNextFrame or setSegmentBuffer.
PartlyReset(p) ==
    /\ p[1] \in {"readyForNextFrame", "setSegmentBuffer"}
    /\ p[2] >= 3
    /\ p[2] <= Len(Body(p)) - 1

\* What a handler that runs now adds to irqDuring.
Interrupted ==
    IF PartlyReset(pc) \/ irqDuring = "partial" THEN "partial" ELSE "outside"

\* ISR(TIMER1_CAPT_vect) is served and delivers an edge.
IrqEdge(duration) ==
    /\ sreg_I = 1
    /\ segment_overflows < MaxDrops
    /\ edgeEvent(duration)
    /\ irqDuring' = Interrupted
    /\ UNCHANGED <<lastOp, given, run, nEdges, hist, frameEdges, resetBy>>
    /\ UNCHANGED <<timer, timerHistory, sreg_I, pc, crit, retRec>>

\* ISR(TIMER1_OVF_vect) is served and delivers the end of the frame.
IrqEndOfFrame ==
    /\ sreg_I = 1
    /\ endOfFrameEvent
    /\ irqDuring' = Interrupted
    /\ UNCHANGED <<lastOp, given, run, nEdges, hist, frameEdges, resetBy>>
    /\ UNCHANGED <<timer, timerHistory, sreg_I, pc, crit, retRec>>

\* The foreground calls readyForNextFrame.
CallReady ==
    /\ pc = <<"idle">>
    /\ pc' = <<"readyForNextFrame", 1>>
    /\ crit' = <<sreg_I>>
    /\ irqDuring' = "-"
    /\ UNCHANGED <<mem, decoder, history, timer, timerHistory, sreg_I, retRec>>

\* The foreground calls setSegmentBuffer.
CallSet(buf, num_segments) ==
    /\ pc = <<"idle">>
    /\ pc' = <<"setSegmentBuffer", 1, buf, num_segments>>
    /\ crit' = <<sreg_I>>
    /\ irqDuring' = "-"
    /\ UNCHANGED <<mem, decoder, history, timer, timerHistory, sreg_I, retRec>>

\* The foreground executes the next statement of readyForNextFrame or
\* setSegmentBuffer, and returns after the last.
Step ==
    /\ pc[1] \in {"readyForNextFrame", "setSegmentBuffer"}
    /\ Execute(Body(pc)[pc[2]])
    /\ IF pc[2] = Len(Body(pc))
       THEN /\ pc' = <<"idle">>
            /\ crit' = <<crit[1], sreg_I'>>
       ELSE /\ pc' = [pc EXCEPT ![2] = pc[2] + 1]
            /\ UNCHANGED crit
    /\ UNCHANGED <<mem, history, timer, timerHistory, irqDuring, retRec>>

\* The foreground calls getSegmentCount.
CallGetCount ==
    /\ pc = <<"idle">>
    /\ pc' = <<"getSegmentCount", 1>>
    /\ irqDuring' = "-"
    /\ UNCHANGED <<mem, decoder, history, timer, timerHistory, sreg_I, crit, retRec>>

\* The foreground executes the next statement of getSegmentCount.
StepGetCount ==
    /\ pc[1] = "getSegmentCount"
    /\ IF pc[2] = 1 THEN TestComplete ELSE ReturnCount
    /\ UNCHANGED <<mem, decoder, history, timer, timerHistory, sreg_I, crit, irqDuring>>

\* The foreground, between calls, disables or enables interrupts itself.
CallerMask ==
    /\ pc = <<"idle">>
    /\ HwMask \/ HwUnmask
    /\ UNCHANGED <<mem, decoder, history, foreground>>

IrqNext ==
    \/ \E d \in Durations : IrqEdge(d)
    \/ IrqEndOfFrame
    \/ CallReady
    \/ \E n \in 0..BufSize("bufA") : CallSet("bufA", n)
    \/ Step
    \/ CallGetCount
    \/ StepGetCount
    \/ CallerMask

SpecIrq == Init /\ [][IrqNext]_vars


\* ------------------------------------------------------------- properties

\* Number of segments delivered since the last reset: every edge but the first.
Delivered == Max(nEdges - 1, 0)

\* C1: the first edge of a frame (the first edgeEvent after an
\* endOfFrameEvent, or after construction) is never stored: whenever a call
\* has just written a slot, it was at least the second edge of its frame.
C1_FirstEdgeOfFrameNeverStored == lastWrite # <<>> => frameEdges >= 2

\* C2: after a reset, edges d0..dn (n >= 1) and then endOfFrameEvent, slots
\* 0..min(n,C)-1 of the buffer hold d1..d_min(n,C) in arrival order.
C2_SegmentsInArrivalOrder ==
    (run = "eof" /\ nEdges >= 2) =>
        /\ count = Min(Delivered, max_segments)
        /\ Len(hist) = count
        /\ count > 0 => segments \in Buffers
        /\ \A i \in 0..(count - 1) : mem[segments][i] = hist[i + 1]

\* C2 witness: three segments with different durations were delivered to a
\* buffer of capacity 2 and the frame has ended.
C2_Witness ==
    /\ run = "eof"
    /\ nEdges = 4
    /\ max_segments = 2
    /\ hist = <<2, 1>>
    /\ mem[segments] = [i \in 0..1 |-> IF i = 0 THEN 2 ELSE 1]

\* C3: after a reset, a frame of n segments and endOfFrameEvent,
\* getSegmentCount() = min(n, C) and
\* getSegmentOverflowCount() = min(max(n - C, 0), 255).
C3_CountAndOverflowOfFrame ==
    (run = "eof" /\ nEdges >= 1) =>
        /\ getSegmentCount = Min(Delivered, max_segments)
        /\ getSegmentOverflowCount = Min(Max(Delivered - max_segments, 0), OVERFLOW_MAX)

\* C3 witness: capacity 2, four segments: count 2 and overflow count 2.
C3_Witness ==
    /\ run = "eof"
    /\ max_segments = 2
    /\ Delivered = 4
    /\ getSegmentCount = 2
    /\ getSegmentOverflowCount = 2

\* C4: the overflow counter stays in 0..255, an edgeEvent adds at most one to
\* it and leaves it at 255 once there, and it only ever decreases to 0, by
\* readyForNextFrame or setSegmentBuffer.
C4_OverflowCounterSaturates ==
    /\ [](segment_overflows \in 0..OVERFLOW_MAX)
    /\ [][lastOp'[1] = "edge" =>
            /\ segment_overflows' \in {segment_overflows, segment_overflows + 1}
            /\ segment_overflows = OVERFLOW_MAX => segment_overflows' = OVERFLOW_MAX]_vars
    /\ [][segment_overflows' # segment_overflows /\ lastOp'[1] # "edge" =>
            /\ segment_overflows' = 0
            /\ lastOp'[1] \in {"ready", "set"}]_vars

\* C4 witness: more than 255 segments were dropped and the counter reads 255.
C4_Witness ==
    /\ lastOp = <<"edge">>
    /\ run = "edges"
    /\ Delivered - max_segments > OVERFLOW_MAX
    /\ segment_overflows = OVERFLOW_MAX

\* C5: endOfFrameEvent with no segment stored changes nothing: isDone() stays
\* false and the fields and the buffer are as before.
C5_EmptyEndOfFrameIsNoOp ==
    [][lastOp'[1] = "eof" /\ count = 0 =>
            /\ isDone' = 0
            /\ UNCHANGED <<mem, decoder>>]_vars

\* C5 witness: endOfFrameEvent was just received with no segment stored.
C5_Witness ==
    /\ lastOp = <<"eof">>
    /\ count = 0
    /\ isDone = 0

\* C6: while the frame is complete, edgeEvent and endOfFrameEvent change
\* neither the buffers nor any field.
C6_CompleteFrameIsFrozen ==
    [][isDone # 0 /\ lastOp'[1] \in {"edge", "eof"} =>
            UNCHANGED <<mem, decoder>>]_vars

\* C6 witness: an edge arrived after a frame of two segments with three
\* dropped ones was completed.
C6_Witness ==
    /\ lastOp = <<"edge">>
    /\ isDone = 1
    /\ count = 2
    /\ segment_overflows = 3

\* C7: isDone() rises only by an endOfFrameEvent received with a segment
\* stored, every such endOfFrameEvent raises it, it falls only by
\* readyForNextFrame or setSegmentBuffer, and edgeEvent never changes it.
C7_DoneTransitions ==
    [][/\ (isDone = 0 /\ isDone' # 0) => (lastOp'[1] = "eof" /\ count > 0)
       /\ (lastOp'[1] = "eof" /\ count > 0) => isDone' = 1
       /\ (isDone # 0 /\ isDone' = 0) => lastOp'[1] \in {"ready", "set"}
       /\ lastOp'[1] = "edge" => isDone' = isDone]_vars

\* C7 witness: endOfFrameEvent has just completed a frame.
C7_Witness ==
    /\ lastOp = <<"eof">>
    /\ run = "eof"
    /\ isDone = 1
    /\ count > 0

\* C8: readyForNextFrame leaves count 0, isDone() false, overflow count 0
\* and the first-edge flag set, keeps the buffer pointer, the capacity and
\* the buffers, and the edge that follows it stores nothing.
C8_ReadyForNextFrameResets ==
    /\ [][lastOp'[1] = "ready" =>
            /\ count' = 0
            /\ isDone' = 0
            /\ getSegmentOverflowCount' = 0
            /\ first_edge' = 1
            /\ UNCHANGED <<mem, segments, max_segments>>]_vars
    /\ [][lastOp[1] = "ready" /\ lastOp'[1] = "edge" =>
            /\ lastWrite' = <<>>
            /\ count' = 0
            /\ mem' = mem]_vars

\* C8 witness: readyForNextFrame has just been called on a decoder whose
\* buffer of capacity 2 had been filled.
C8_Witness ==
    /\ lastOp = <<"ready">>
    /\ given = <<"bufA", 2>>
    /\ segments = "bufA"
    /\ mem["bufA"][1] # 0
    /\ count = 0
    /\ first_edge = 1

\* C9: setSegmentBuffer installs the given buffer and capacity and resets
\* like readyForNextFrame; every later write is to the buffer last given, at
\* an index below the capacity last given.
C9_SetSegmentBufferInstallsAndResets ==
    /\ [][lastOp'[1] = "set" =>
            /\ segments' = lastOp'[2]
            /\ max_segments' = lastOp'[3]
            /\ count' = 0
            /\ isDone' = 0
            /\ getSegmentOverflowCount' = 0
            /\ first_edge' = 1
            /\ mem' = mem]_vars
    /\ [](lastWrite # <<>> => (lastWrite[1] = given[1] /\ lastWrite[2] < given[2]))

\* C9 witness: segments were captured into bufA, bufB was supplied
\* afterwards, and a segment has just been written to bufB.
C9_Witness ==
    /\ mem["bufA"][1] # 0
    /\ given = <<"bufB", 1>>
    /\ lastWrite = <<"bufB", 0>>

\* C10: the stored count never exceeds the capacity given to
\* setSegmentBuffer, every write is at an index below it, and
\* getSegmentCount() is 0 while isDone() is false and the stored count
\* otherwise.
C10_CountWithinCapacity ==
    /\ count <= given[2]
    /\ lastWrite # <<>> => (lastWrite[2] < given[2] /\ lastWrite[2] < BufSize(lastWrite[1]))
    /\ isDone = 0 => getSegmentCount = 0
    /\ isDone # 0 => (getSegmentCount = count /\ getSegmentCount <= given[2])

\* C10 witness: the buffer of capacity 2 is full, further segments were
\* dropped and the frame is complete.
C10_Witness ==
    /\ given[2] = 2
    /\ isDone = 1
    /\ getSegmentCount = 2
    /\ segment_overflows > 0

\* C15: after readyForNextFrame (or any other reset) isDone() is false, and
\* a frame of at least two edges followed by endOfFrameEvent makes it true
\* again whenever the capacity is at least 1, whatever state the reset was
\* made in.
C15_RecoversAfterReset ==
    /\ (run = "edges" /\ nEdges = 0) => isDone = 0
    /\ (run = "eof" /\ nEdges >= 2 /\ max_segments >= 1) => isDone = 1

\* C15 witness: readyForNextFrame was called with the frame complete and the
\* overflow count saturated, and the next frame of two edges is complete.
C15_Witness ==
    /\ resetBy = "ready"
    /\ run = "eof"
    /\ nEdges = 2
    /\ isDone = 1
    /\ segment_overflows = 0

\* C19: with capacity 0 no slot is written, the count stays 0, isDone()
\* stays false, and every edge after the first of a reset adds one to the
\* overflow count until it stays at 255.
C19_ZeroCapacityOnlyCounts ==
    /\ [](max_segments = 0 =>
            /\ count = 0
            /\ isDone = 0
            /\ lastWrite = <<>>
            /\ run = "edges" => segment_overflows = Min(Delivered, OVERFLOW_MAX))
    /\ [][max_segments = 0 /\ lastOp'[1] = "edge" =>
            /\ mem' = mem
            /\ segment_overflows' =
                   IF first_edge = 1 THEN segment_overflows
                   ELSE Min(segment_overflows + 1, OVERFLOW_MAX)]_vars

\* C19 witness: a decoder that was never given a buffer, whose _segments is
\* not one of the caller's arrays, has counted 255 dropped edges and has
\* received an end of frame.
C19_Witness ==
    /\ given = <<"none", 0>>
    /\ segments \notin Buffers
    /\ lastOp = <<"eof">>
    /\ segment_overflows = OVERFLOW_MAX
    /\ isDone = 0

\* The edge direction the documentation of setup gives for its polarity
\* argument: rising for IR_POLARITY_LOW, falling for IR_POLARITY_HIGH, and
\* for IR_POLARITY_AUTO rising if the pin read 0.
DocumentedRising(args) ==
    \/ args[1] = "IR_POLARITY_LOW"
    \/ args[1] = "IR_POLARITY_AUTO" /\ args[2] = 0

\* C11: from the return of setup to the first capture, the edge-select bit
\* is the one the polarity argument asks for.
C11_SetupSelectsEdge ==
    (setupArgs # <<>> /\ lastCapt = <<>>) =>
        (("ICES1" \in TCCR1B) = DocumentedRising(setupArgs))

\* C12: endOfFrameEvent is delivered only after the counter has wrapped
\* since the last captureInterrupt, with no captured edge pending, and never
\* between setup and the first capture, during which the overflow interrupt
\* is disabled.
C12_EndOfFrameOnlyAfterIdleWrap ==
    /\ lastOvf # <<>> => lastOvf = <<TRUE, FALSE, TRUE>>
    /\ (setupArgs # <<>> /\ lastCapt = <<>>) =>
           ("TOIE1" \notin TIMSK1 /\ delivered = <<>>)

\* C12 witness: the overflow handler has delivered endOfFrameEvent.
C12_Witness ==
    /\ lastOvf = <<TRUE, FALSE, TRUE>>
    /\ delivered = << <<"endOfFrameEvent">> >>

\* C13: at most one endOfFrameEvent is delivered between two captures.
C13_AtMostOneEndOfFrame == eofCount <= 1

\* C13 witness: after the endOfFrameEvent the counter has wrapped again with
\* interrupts enabled, and the overflow interrupt is disabled.
C13_Witness ==
    /\ eofCount = 1
    /\ "TOV1" \in TIFR1
    /\ "TOIE1" \notin TIMSK1
    /\ sreg_I = 1

\* C14: a captureInterrupt with a delegate registered makes exactly one call
\* to it, edgeEvent with the value ICR1 held at entry, and the capture
\* interrupt is enabled afterwards.
C14_CaptureDeliversOneEdge ==
    lastCapt # <<>> =>
        /\ lastCapt[4] # "NULL" => lastCapt[1] = << <<"edgeEvent", lastCapt[2]>> >>
        /\ "ICIE1" \in TIMSK1

\* C14 witness: a capture delivered a latched value of 2 ticks.
C14_Witness ==
    /\ lastCapt # <<>>
    /\ lastCapt[4] = "dec"
    /\ lastCapt[1] = << <<"edgeEvent", 2>> >>

\* C17: after a captureInterrupt the edge-select bit is the opposite of what
\* it was when the handler was entered.
C17_EdgeSelectToggles ==
    lastCapt # <<>> => (("ICES1" \in TCCR1B) = ~lastCapt[3])

\* C17 witness: a capture taken on a rising edge has selected the falling
\* edge.
C17_Witness ==
    /\ lastCapt # <<>>
    /\ lastCapt[3]
    /\ "ICES1" \notin TCCR1B

\* C16: no interrupt handler runs between the first and the last field write
\* of readyForNextFrame or setSegmentBuffer.
C16_ResetIsAtomic == irqDuring # "partial"

\* C16 witness: readyForNextFrame has reset the count and the complete flag
\* of a complete frame and not yet the overflow count, with interrupts
\* disabled.
C16_Witness ==
    /\ pc = <<"readyForNextFrame", 4>>
    /\ count = 0
    /\ frame_complete = 0
    /\ segment_overflows > 0
    /\ first_edge = 0
    /\ sreg_I = 0

\* C18: getSegmentCount returns 0, or the count of a frame that is complete
\* when it returns.
C18_CountOfCompleteFrameOrZero ==
    retRec # <<>> => \/ retRec[1] = 0
                     \/ retRec[2] = 1 /\ retRec[1] = retRec[3]

\* C18 witness: a handler ran between the two reads and the call returned
\* the count of the complete frame.
C18_Witness ==
    /\ retRec # <<>>
    /\ retRec[1] = MaxCap
    /\ retRec[2] = 1
    /\ retRec[4] = "outside"

\* C20: interrupts are enabled when readyForNextFrame or setSegmentBuffer
\* returns, whatever the I bit was at entry.
C20_ReturnsWithInterruptsEnabled == Len(crit) = 2 => crit[2] = 1

\* C20 witness: setSegmentBuffer was entered with interrupts disabled and has
\* returned with them enabled.
C20_Witness ==
    /\ crit = <<0, 1>>
    /\ pc = <<"idle">>
    /\ sreg_I = 1
    /\ max_segments = MaxCap

====
